---- MODULE Spec2Model ----
(***************************************************************************)
(* Model of mortgage_visualisation.py: the amortization computation of     *)
(* lines 12-47 (parameters, monthly payment, schedule loop, summary).      *)
(*                                                                         *)
(* The script computes with Python ints and floats.  A float is an         *)
(* IEEE-754 binary64 number: every +, -, * and / rounds its exact result   *)
(* to 53 significant bits, ties to even.  The model keeps that: a number   *)
(* is a record [s, m, e] of value (-1)^s * m * 2^e whose mantissa m is a   *)
(* natural number held as a little-endian sequence of limbs (TLC's         *)
(* integers are 32 bits wide, a mantissa is 53).  The exponent range of    *)
(* binary64 is modelled for ** only (OverflowError); the inputs explored   *)
(* stay far from overflow and underflow elsewhere, and -0.0 is not told    *)
(* apart from 0.0.                                                         *)
(*                                                                         *)
(* Two results are not fixed by the language: x ** n is C's pow(), which   *)
(* may return either float next to the exact power, and sum() adds left    *)
(* to right before CPython 3.12 and with compensation from 3.12 on.  Both  *)
(* are choices of the model.                                               *)
(***************************************************************************)
EXTENDS Integers, Sequences, FiniteSets, TLC

----------------------------------------------------------------------------
(* Natural numbers of any size: little-endian limbs, no leading zero limb, *)
(* zero is the empty sequence.                                             *)

Base == 2^15

\* the number of bits of n, for 0 <= n < 2^30
IntBits(n) == CHOOSE k \in 0..30 : n < 2^k /\ (k = 0 \/ n >= 2^(k - 1))

LimbBits == IntBits(Base - 1)

Limb(a, i) == IF i >= 1 /\ i <= Len(a) THEN a[i] ELSE 0

\* a without its leading zero limbs
BNorm(a) ==
    LET nz == {i \in 1..Len(a) : a[i] # 0}
    IN  IF nz = {} THEN <<>>
        ELSE SubSeq(a, 1, CHOOSE i \in nz : \A j \in nz : j <= i)

\* for 0 <= n < 2^31
BFromInt(n) == BNorm(<<n % Base, (n \div Base) % Base, n \div (Base * Base)>>)

\* a + b; the carry into limb i is found by looking back for the limb that
\* made it (no recursion: TLC's stack is small)
BAdd(a, b) ==
    LET n == (IF Len(a) > Len(b) THEN Len(a) ELSE Len(b)) + 1
        s == [i \in 1..n |-> Limb(a, i) + Limb(b, i)]
        cin(i) == \E j \in 1..(i - 1) :
                     s[j] >= Base /\ \A k \in (j + 1)..(i - 1) : s[k] = Base - 1
    IN  BNorm([i \in 1..n |-> (s[i] + IF cin(i) THEN 1 ELSE 0) % Base])

\* a - b, for a >= b
BSub(a, b) ==
    LET d == [i \in 1..Len(a) |-> a[i] - Limb(b, i)]
        bin(i) == \E j \in 1..(i - 1) :
                     d[j] < 0 /\ \A k \in (j + 1)..(i - 1) : d[k] = 0
    IN  BNorm([i \in 1..Len(a) |-> (d[i] - IF bin(i) THEN 1 ELSE 0) % Base])

\* -1, 0 or 1 as a < b, a = b or a > b
BCmp(a, b) ==
    IF Len(a) # Len(b) THEN (IF Len(a) < Len(b) THEN -1 ELSE 1)
    ELSE LET df == {i \in 1..Len(a) : a[i] # b[i]}
         IN  IF df = {} THEN 0
             ELSE LET k == CHOOSE i \in df : \A j \in df : j <= i
                  IN  IF a[k] < b[k] THEN -1 ELSE 1

\* a * k, for a limb k: the low halves of the limb products plus their high
\* halves one limb up
BMulSmall(a, k) ==
    LET t == [i \in 1..Len(a) |-> a[i] * k]
    IN  BAdd([i \in 1..Len(a) |-> t[i] % Base],
             [i \in 1..(Len(a) + 1) |-> IF i = 1 THEN 0 ELSE t[i - 1] \div Base])

BShlLimbs(a, n) == IF a = <<>> THEN <<>> ELSE [i \in 1..n |-> 0] \o a

\* the sums over i.. of the low and of the high halves of a[i] * b[c + 1 - i]
RECURSIVE ColLo(_, _, _, _)
ColLo(a, b, c, i) ==
    IF i > Len(a) THEN 0
    ELSE ((a[i] * Limb(b, c + 1 - i)) % Base) + ColLo(a, b, c, i + 1)

RECURSIVE ColHi(_, _, _, _)
ColHi(a, b, c, i) ==
    IF i > Len(a) THEN 0
    ELSE ((a[i] * Limb(b, c + 1 - i)) \div Base) + ColHi(a, b, c, i + 1)

\* a * b, column by column
BMul(a, b) ==
    LET n  == Len(a) + Len(b)
        dg == [c \in 1..n |-> ColLo(a, b, c, 1) + ColHi(a, b, c - 1, 1)]
    IN  BAdd([c \in 1..n |-> dg[c] % Base],
             [c \in 1..(n + 1) |-> IF c = 1 THEN 0 ELSE dg[c - 1] \div Base])

BitLen(a) ==
    IF a = <<>> THEN 0 ELSE LimbBits * (Len(a) - 1) + IntBits(a[Len(a)])

\* a * 2^k
BShl(a, k) == BShlLimbs(BMulSmall(a, 2^(k % LimbBits)), k \div LimbBits)

\* floor(a / 2^k)
BShr(a, k) ==
    LET n == k \div LimbBits
        d == 2^(k % LimbBits)
        t == IF n >= Len(a) THEN <<>> ELSE SubSeq(a, n + 1, Len(a))
    IN  BNorm([i \in 1..Len(t) |->
                 (t[i] \div d) + (Limb(t, i + 1) % d) * (Base \div d)])

\* Knuth's estimate of the next quotient limb from the top limbs of the
\* running remainder r and of d: at most 2 too large
QEstimate(d, r) ==
    LET q0 == (Limb(r, Len(d) + 1) * Base + Limb(r, Len(d))) \div d[Len(d)]
    IN  IF q0 > Base - 1 THEN Base - 1 ELSE q0

\* the quotient q so far with the limb g put below it, and what g leaves of r
BDivTake(d, q, r, g) == << BNorm(<<g>> \o q), BSub(r, BMulSmall(d, g)) >>

\* the limb floor(r / d), among the estimate qh and the two below it
BDivPick(d, q, r, qh) ==
    BDivTake(d, q, r, CHOOSE x \in {qh, qh - 1, qh - 2} :
                         /\ x >= 0
                         /\ BCmp(BMulSmall(d, x), r) <= 0
                         /\ x = qh \/ BCmp(BMulSmall(d, x + 1), r) > 0)

\* one step of long division: the limb `limb` of the dividend is brought
\* down below the remainder of prev = <<quotient, remainder>>
BDivStep(d, limb, prev) ==
    IF limb = 0 /\ prev[1] = <<>> /\ prev[2] = <<>> THEN prev
    ELSE BDivPick(d, prev[1], BNorm(<<limb>> \o prev[2]),
                  QEstimate(d, BNorm(<<limb>> \o prev[2])))

\* <<quotient, remainder>> of the limbs i.. of n by d, whose top limb is at
\* least Base / 2
RECURSIVE BDivFrom(_, _, _)
BDivFrom(n, d, i) ==
    IF i > Len(n) THEN << <<>>, <<>> >>
    ELSE BDivStep(d, n[i], BDivFrom(n, d, i + 1))

\* the remainder scaled back by 2^s
BDivBack(qr, s) == << qr[1], BShr(qr[2], s) >>

\* <<floor(n / d), n mod d>> for d # 0: both scaled by 2^s so that the top
\* limb of the divisor is at least Base / 2
BDivScaled(n, d, s) == BDivBack(BDivFrom(BShl(n, s), BShl(d, s), 1), s)

BDivMod(n, d) == BDivScaled(n, d, LimbBits - IntBits(d[Len(d)]))

----------------------------------------------------------------------------
(* Exact binary numbers (-1)^s * m * 2^e, and their rounding to a float.   *)

MantBits == 53

Zero == [s |-> 0, m |-> <<>>, e |-> 0]

Mk(s, m, e) == IF m = <<>> THEN Zero ELSE [s |-> s, m |-> m, e |-> e]

WNeg(x) == Mk(1 - x.s, x.m, x.e)

WAbs(x) == Mk(0, x.m, x.e)

WMul(x, y) == Mk((x.s + y.s) % 2, BMul(x.m, y.m), x.e + y.e)

\* the sum of (-1)^xs * a * 2^e and (-1)^ys * b * 2^e; c compares a and b
WAddMant(xs, a, ys, b, e, c) ==
    IF xs = ys THEN Mk(xs, BAdd(a, b), e)
    ELSE IF c = 0 THEN Zero
    ELSE IF c > 0 THEN Mk(xs, BSub(a, b), e)
    ELSE Mk(ys, BSub(b, a), e)

\* x + y with the mantissas a and b of x and y at the common exponent e
WAddAt(x, a, y, b, e) == WAddMant(x.s, a, y.s, b, e, BCmp(a, b))

\* x + y, for e the smaller of the two exponents
WAddTo(x, y, e) == WAddAt(x, BShl(x.m, x.e - e), y, BShl(y.m, y.e - e), e)

WAdd(x, y) ==
    IF x.m = <<>> THEN y
    ELSE IF y.m = <<>> THEN x
    ELSE WAddTo(x, y, IF x.e < y.e THEN x.e ELSE y.e)

WSub(x, y) == WAdd(x, WNeg(y))

\* -1, 0 or 1 as d < 0, d = 0 or d > 0
WSign(d) == IF d.m = <<>> THEN 0 ELSE IF d.s = 1 THEN -1 ELSE 1

\* -1, 0 or 1 as x < y, x = y or x > y, exactly
WCmp(x, y) == WSign(WSub(x, y))

WInt(n) == IF n < 0 THEN Mk(1, BFromInt(-n), 0) ELSE Mk(0, BFromInt(n), 0)

\* the quotient bits qr[1] followed by one sticky bit: set when the
\* remainder qr[2] is not zero
WDivSticky(qr) ==
    IF qr[2] = <<>> THEN BShl(qr[1], 1) ELSE BAdd(BShl(qr[1], 1), <<1>>)

\* x / y from k quotient bits below the binary point
WDivBits(x, y, k) ==
    Mk((x.s + y.s) % 2, WDivSticky(BDivMod(BShl(x.m, k), y.m)),
       x.e - y.e - k - 1)

\* x / y for y # 0, as a number whose rounding (any mode) to at most 64 bits
\* is that of the exact quotient: 66 or more quotient bits, then one sticky bit
WDiv(x, y) ==
    IF x.m = <<>> THEN Zero ELSE WDivBits(x, y, 66 + BitLen(y.m))

\* to nearest, ties to even: c compares the dropped part with half a unit
\* of the kept part q
NearestUp(q, c) == c > 0 \/ (c = 0 /\ q[1] % 2 = 1)

\* whether q, the mantissa w.m without its lowest sh bits, is rounded up,
\* r being those sh bits
RoundsUp(mode, q, r, sh) ==
    IF mode = "n" THEN NearestUp(q, BCmp(BShl(r, 1), BShl(<<1>>, sh)))
    ELSE IF mode = "z" THEN FALSE
    ELSE r # <<>>

\* the rounded mantissa q1 at exponent e, halved when rounding up carried
\* it to one bit more
RoundCarry(s, q1, e, bits) ==
    IF BitLen(q1) > bits THEN Mk(s, BShr(q1, 1), e + 1) ELSE Mk(s, q1, e)

\* w without its lowest sh bits (q), rounded
RoundKept(w, bits, mode, sh, q) ==
    RoundCarry(w.s,
               IF RoundsUp(mode, q, BSub(w.m, BShl(q, sh)), sh)
               THEN BAdd(q, <<1>>) ELSE q,
               w.e + sh, bits)

\* w # 0, whose mantissa has sh bits more than `bits`
RoundBy(w, bits, mode, sh) ==
    IF sh <= 0 THEN Mk(w.s, BShl(w.m, -sh), w.e + sh)
    ELSE RoundKept(w, bits, mode, sh, BShr(w.m, sh))

\* w rounded to `bits` significant bits: "n" to nearest, ties to even; "z"
\* toward zero; "a" away from zero.  The result's mantissa has exactly
\* `bits` bits, so equal values are equal records.
RoundTo(w, bits, mode) ==
    IF w.m = <<>> THEN Zero ELSE RoundBy(w, bits, mode, BitLen(w.m) - bits)

----------------------------------------------------------------------------
(* Python's float arithmetic: the exact result, rounded to nearest even.   *)

F(w) == RoundTo(w, MantBits, "n")

\* float(n) for an int n (exact below 2^53)
FInt(n) == F(WInt(n))

FAdd(x, y) == F(WAdd(x, y))

FSub(x, y) == F(WSub(x, y))

FMul(x, y) == F(WMul(x, y))

\* x / y for y # 0.0 (Python raises ZeroDivisionError at y = 0.0)
FDiv(x, y) == F(WDiv(x, y))

\* a decimal literal num/den (den a power of ten): the nearest float
DecLit(num, den) == FDiv(FInt(num), FInt(den))

\* max(0, x): x when x > 0, else 0
Max0(x) == IF WCmp(x, Zero) > 0 THEN x ELSE Zero

\* sq = h^2 (bounded), times x when n is odd
PowOdd(x, n, mode, sq) ==
    IF n % 2 = 0 \/ sq.m = <<>> THEN sq ELSE RoundTo(WMul(sq, x), 128, mode)

\* x^n from h, the bound of x^(n div 2)
PowSquare(x, n, mode, h) ==
    IF h.m = <<>> THEN Zero
    ELSE PowOdd(x, n, mode, RoundTo(WMul(h, h), 128, mode))

\* A lower ("z") or upper ("a") bound of x^n for x > 0 and n >= 0, by
\* squaring (x^n = (x^(n div 2))^2 * x^(n mod 2)), kept to 128 bits; it is
\* x^n itself while that fits.
RECURSIVE PowBound(_, _, _)
PowBound(x, n, mode) ==
    IF n = 0 THEN WInt(1)
    ELSE PowSquare(x, n, mode, PowBound(x, n \div 2, mode))

\* the two floats around x^n, lo <= x^|n| <= hi being its bounds
PowAround(n, lo, hi) ==
    IF lo.m = <<>> \/ hi.m = <<>> THEN {Zero}
    ELSE IF n >= 0
    THEN {RoundTo(lo, MantBits, "z"), RoundTo(hi, MantBits, "a")}
    ELSE {RoundTo(WDiv(WInt(1), hi), MantBits, "z"),
          RoundTo(WDiv(WInt(1), lo), MantBits, "a")}

\* x ** n for a float x > 0 and an int n: float_pow hands both to C's pow(),
\* whose error is below one unit in the last place: the result is one of the
\* two floats around x^n (x^n itself when it is a float).
PowResults(x, n) ==
    PowAround(n, PowBound(x, IF n >= 0 THEN n ELSE -n, "z"),
                 PowBound(x, IF n >= 0 THEN n ELSE -n, "a"))

\* pow() overflowed the binary64 range: Python raises OverflowError
PowOverflows(p) == p.e + MantBits > 1024

\* One step of sum() as CPython before 3.12 computes it: result + item
\* (the start value 0, an int, plus x is x)
SumLeftStep(f, x) == IF f.m = <<>> THEN x ELSE FAdd(f, x)

\* f + s[i] + ... + s[j], left to right; the additions happen in list order,
\* the range is halved only to keep the evaluation shallow
RECURSIVE SumLeftRange(_, _, _, _)
SumLeftRange(s, f, i, j) ==
    IF i > j THEN f
    ELSE IF i = j THEN SumLeftStep(f, s[i])
    ELSE LET g == SumLeftRange(s, f, i, (i + j) \div 2)
         IN  IF g.m = <<>> THEN SumLeftRange(s, Zero, (i + j) \div 2 + 1, j)
             ELSE SumLeftRange(s, g, (i + j) \div 2 + 1, j)

\* Neumaier's correction of t = f + x: what the addition lost
NeumaierLost(f, x, t) ==
    IF WCmp(WAbs(f), WAbs(x)) >= 0
    THEN FAdd(FSub(f, t), x)
    ELSE FAdd(FSub(x, t), f)

\* the pair << f_result, c >> once t = f_result + x is known
NeumaierNext(fc, x, t) ==
    IF t.m = <<>> THEN << Zero, FAdd(fc[2], NeumaierLost(fc[1], x, Zero)) >>
    ELSE << t, FAdd(fc[2], NeumaierLost(fc[1], x, t)) >>

\* One step of sum() as CPython 3.12 and later computes it for floats,
\* Neumaier's compensated summation: fc is the pair << f_result, c >>
NeumaierStep(fc, x) == NeumaierNext(fc, x, FAdd(fc[1], x))

\* the pair << f_result, c >> after the items s[i..j], in list order
RECURSIVE NeumaierRange(_, _, _, _)
NeumaierRange(s, fc, i, j) ==
    IF i > j THEN fc
    ELSE IF i = j THEN NeumaierStep(fc, s[i])
    ELSE LET g == NeumaierRange(s, fc, i, (i + j) \div 2)
         IN  IF g[2].m = <<>>
             THEN NeumaierRange(s, << g[1], Zero >>, (i + j) \div 2 + 1, j)
             ELSE NeumaierRange(s, g, (i + j) \div 2 + 1, j)

\* f_result + c, unless c is 0
NeumaierResult(fc) == IF fc[2].m # <<>> THEN FAdd(fc[1], fc[2]) ELSE fc[1]

\* the values the builtin sum() may return for a list of floats, by the
\* version of the interpreter: the plain sum, or the compensated sum (the
\* first item is added to the start value 0 either way)
SumResults(s) ==
    IF s = <<>> THEN {Zero}
    ELSE {SumLeftRange(s, Zero, 1, Len(s)),
          NeumaierResult(NeumaierRange(s, << s[1], Zero >>, 2, Len(s)))}

----------------------------------------------------------------------------
(* The script.  Its names are the variables; pc is the position in the     *)
(* file, error the exception that ended the run, stdout the values the     *)
(* summary block (lines 49-59) prints, before their formatting.  A name    *)
(* not yet bound holds Unset; month counts the iterations done, 0 before   *)
(* the first (where Python has not bound it yet).  Ints (all below         *)
(* 2^53 here) and floats are both held by value, so the int 0 and the      *)
(* float 0.0 are the same value, as they are under Python's ==.            *)

VARIABLES principal, annual_rate, term_years, payments_made,
          monthly_rate, total_payments, remaining_payments, monthly_payment,
          balance, balances, principal_payments, interest_payments,
          cumulative_principal, cumulative_interest,
          month, interest, principal_paid,
          total_interest, total_cost, stdout, pc, error

params   == << principal, annual_rate, term_years, payments_made >>
derived  == << monthly_rate, total_payments, remaining_payments >>
schedule == << balance, balances, principal_payments, interest_payments,
               cumulative_principal, cumulative_interest,
               month, interest, principal_paid >>
summary  == << total_interest, total_cost, stdout >>
vars     == << params, derived, monthly_payment, schedule, summary, pc, error >>

Unset == "unset"

\* the largest term_years the parameter block is given
MaxTermYears == 1

\* the values tried for principal (line 12)
Principals == {-5, 196687}

\* the values tried for the percentage of line 13, as << num, den >> of the
\* decimal literal: 0, 2.85 and 4800 percent a year
RatePercents == {<< 0, 1 >>, << 285, 100 >>, << 4800, 1 >>}

\* annual_rate = <percentage> / 100
AnnualRate(pct) == FDiv(DecLit(pct[1], pct[2]), FInt(100))

\* the state once the parameter block (lines 12-15) has run
InitWith(P, R, T, M) ==
    /\ principal = P
    /\ annual_rate = R
    /\ term_years = T
    /\ payments_made = M
    /\ monthly_rate = Unset /\ total_payments = Unset
    /\ remaining_payments = Unset /\ monthly_payment = Unset
    /\ balance = Unset /\ balances = Unset
    /\ principal_payments = Unset /\ interest_payments = Unset
    /\ cumulative_principal = Unset /\ cumulative_interest = Unset
    /\ month = Unset /\ interest = Unset /\ principal_paid = Unset
    /\ total_interest = Unset /\ total_cost = Unset
    /\ stdout = << >>
    /\ pc = "derive"
    /\ error = "none"

\* the parameter block as the file has it
InitSource == InitWith(196687, AnnualRate(<< 285, 100 >>), 23, 0)

\* the parameter block edited to other values
Init ==
    \E P \in Principals, pct \in RatePercents, T \in -1..MaxTermYears,
       M \in {0, 1, 12 * MaxTermYears + 1} :
        InitWith(P, AnnualRate(pct), T, M)

\* lines 19-21: the monthly values
Derive ==
    /\ pc = "derive"
    /\ monthly_rate' = FDiv(annual_rate, FInt(12))
    /\ total_payments' = term_years * 12
    /\ remaining_payments' = term_years * 12 - payments_made
    /\ pc' = "payment"
    /\ UNCHANGED << params, monthly_payment, schedule, summary, error >>

\* (1 + monthly_rate)**total_payments: the values pow() may return
Growth(rate, n) == PowResults(FAdd(FInt(1), rate), n)

\* line 24 with the "- 1" of the denominator left out
MonthlyPaymentNoMinusOne(P, rate, p) ==
    FDiv(FMul(FInt(P), FMul(rate, p)), p)

\* line 24, with p the value of (1 + monthly_rate)**total_payments:
\* principal * (monthly_rate * p) / (p - 1)
MonthlyPayment(P, rate, p) ==
    FDiv(FMul(FInt(P), FMul(rate, p)), FSub(p, FInt(1)))

\* line 24: the standard amortization formula; pow() may overflow, and the
\* division raises when p - 1 is 0.0
ComputePayment ==
    /\ pc = "payment"
    /\ \E p \in Growth(monthly_rate, total_payments) :
         IF PowOverflows(p)
         THEN /\ error' = "OverflowError"
              /\ pc' = "failed"
              /\ UNCHANGED monthly_payment
         ELSE IF FSub(p, FInt(1)).m = <<>>
         THEN /\ error' = "ZeroDivisionError"
              /\ pc' = "failed"
              /\ UNCHANGED monthly_payment
         ELSE /\ monthly_payment' = MonthlyPayment(principal, monthly_rate, p)
              /\ pc' = "schedule"
              /\ UNCHANGED error
    /\ UNCHANGED << params, derived, schedule, summary >>

\* lines 27-32: the lists before any payment
InitSchedule ==
    /\ pc = "schedule"
    /\ balance' = FInt(principal)
    /\ balances' = << FInt(principal) >>
    /\ principal_payments' = << >>
    /\ interest_payments' = << >>
    /\ cumulative_principal' = << Zero >>
    /\ cumulative_interest' = << Zero >>
    /\ month' = 0
    /\ pc' = "loop"
    /\ UNCHANGED << params, derived, monthly_payment, interest, principal_paid,
                    summary, error >>

\* line 35
Interest(bal, rate) == FMul(bal, rate)

\* line 36 with the interest not taken off the payment
PrincipalPaidWhole(payment, int) == payment

\* line 36
PrincipalPaid(payment, int) == FSub(payment, int)

\* line 37
NewBalance(bal, paid) == FSub(bal, paid)

\* line 39: the balance as recorded
Recorded(bal) == Max0(bal)

\* lines 42-43 appending the portion itself, not the running sum
AccumulateNoCarry(cum, x) == Append(cum, x)

\* lines 42-43: the list with its last element plus x appended
Accumulate(cum, x) == Append(cum, FAdd(cum[Len(cum)], x))

\* lines 34-43: one iteration of the loop over range(1, total_payments + 1)
LoopStep ==
    /\ pc = "loop"
    /\ month < total_payments
    /\ month' = month + 1
    /\ interest' = Interest(balance, monthly_rate)
    /\ principal_paid' = PrincipalPaid(monthly_payment, interest')
    /\ balance' = NewBalance(balance, principal_paid')
    /\ balances' = Append(balances, Recorded(balance'))
    /\ principal_payments' = Append(principal_payments, principal_paid')
    /\ interest_payments' = Append(interest_payments, interest')
    /\ cumulative_principal' = Accumulate(cumulative_principal, principal_paid')
    /\ cumulative_interest' = Accumulate(cumulative_interest, interest')
    /\ UNCHANGED << params, derived, monthly_payment, summary, pc, error >>

\* line 47 with the principal left out
TotalCostInterestOnly(P, interest_sum) == interest_sum

\* line 47
TotalCost(P, interest_sum) == FAdd(FInt(P), interest_sum)

\* lines 46-59, once the range is exhausted: the totals and the printed
\* summary
Summary ==
    /\ pc = "loop"
    /\ month >= total_payments
    /\ \E t \in SumResults(interest_payments) :
         /\ total_interest' = t
         /\ total_cost' = TotalCost(principal, t)
    /\ stdout' = << principal, FMul(annual_rate, FInt(100)), term_years,
                    total_payments,
                    monthly_payment, total_interest', total_cost' >>
    /\ pc' = "done"
    /\ UNCHANGED << params, derived, monthly_payment, schedule, error >>

Next == Derive \/ ComputePayment \/ InitSchedule \/ LoopStep \/ Summary

Spec == Init /\ [][Next]_vars

SpecSource == InitSource /\ [][Next]_vars

----------------------------------------------------------------------------
(* Vocabulary of the properties.                                           *)

\* the run ended normally, or with an exception
Completed == pc = "done"
Failed    == pc = "failed"

\* line 24 has produced a monthly payment
PaymentComputed == pc \in {"schedule", "loop", "done"}

\* the lists of lines 27-32 exist
Scheduled == pc \in {"loop", "done"}

\* the number of schedule entries recorded so far
Entries == IF Scheduled THEN Len(principal_payments) ELSE 0

Last(s) == s[Len(s)]

\* x >= 0, x > 0, x < y for numbers
NonNeg(x) == x.m = <<>> \/ x.s = 0
Pos(x)    == x.m # <<>> /\ x.s = 0
Less(x, y) == WCmp(x, y) < 0

\* |x - y| <= num / den, exactly (num, den ints, den > 0)
Within(x, y, num, den) ==
    WCmp(WMul(WAbs(WSub(x, y)), WInt(den)), WInt(num)) <= 0

\* |x - y| <= 1e-6 * P: the spec's relative tolerance, on the scale of the
\* principal P
WithinTolerance(x, y, P) == Within(x, y, P, 10^6)

ValidPrincipalAndTerm == principal > 0 /\ term_years > 0

----------------------------------------------------------------------------
(* C1: for valid input the number of schedule entries is                   *)
(* term_years*12 - payments_made.  The loop of lines 34-43 runs over       *)
(* range(1, total_payments + 1) and never reads remaining_payments: with   *)
(* payments_made = 1 a completed run holds term_years*12 entries.          *)
C1_ScheduleLength ==
    (Completed /\ ValidPrincipalAndTerm
       /\ payments_made >= 0 /\ payments_made <= term_years * 12)
    => /\ Len(principal_payments) = term_years * 12 - payments_made
       /\ Len(interest_payments) = term_years * 12 - payments_made

(* C2: with payments_made > term_years*12 the run fails with               *)
(* InvalidParameter: no monthly payment is computed, no entry recorded,    *)
(* nothing reported.  Nothing in the script checks payments_made.          *)
C2_PaymentsMadeRejected ==
    (ValidPrincipalAndTerm /\ Pos(annual_rate)
       /\ payments_made > term_years * 12)
    => /\ ~PaymentComputed
       /\ Entries = 0
       /\ stdout = << >>
       /\ error \in {"none", "InvalidParameter"}
       /\ Failed => error = "InvalidParameter"

(* C3: with principal <= 0 or term_years <= 0 the run fails with           *)
(* InvalidParameter before a monthly payment is computed or an entry       *)
(* recorded, and never completes.  The script validates nothing:           *)
(* term_years = 0 ends in ZeroDivisionError, the other cases complete.     *)
C3_PrincipalAndTermRejected ==
    ((principal <= 0 \/ term_years <= 0) /\ Pos(annual_rate))
    => /\ ~PaymentComputed
       /\ Entries = 0
       /\ ~Completed
       /\ error \in {"none", "InvalidParameter"}
       /\ Failed => error = "InvalidParameter"

(* C4: with annual_rate = 0, principal > 0 and term_years > 0 the run      *)
(* completes without error, monthly_payment = principal / (term_years*12), *)
(* every interest portion is 0, total_interest = 0 and                     *)
(* total_cost = principal.  Line 24 has no special case: it divides by     *)
(* (1 + 0)**n - 1 = 0.                                                     *)
C4_ZeroRate ==
    (annual_rate.m = <<>> /\ ValidPrincipalAndTerm)
    => /\ error = "none"
       /\ ~Failed
       /\ PaymentComputed
          => monthly_payment = FDiv(FInt(principal), FInt(term_years * 12))
       /\ Scheduled
          => \A i \in 1..Len(interest_payments) : interest_payments[i] = Zero
       /\ Completed
          => total_interest = Zero /\ total_cost = FInt(principal)

(* C5: for principal > 0, annual_rate >= 0 and term_years > 0 the loop     *)
(* runs over the full schedule, and after it the last element of           *)
(* cumulative_principal equals the principal within tolerance while the    *)
(* final balance, before clamping and as recorded, is 0 within tolerance.  *)
(* At annual_rate = 0 (C4) line 24 raises and there is no schedule.        *)
C5_PrincipalRepaid ==
    (ValidPrincipalAndTerm /\ NonNeg(annual_rate))
    => /\ error = "none"
       /\ Completed
          => /\ WithinTolerance(Last(cumulative_principal), FInt(principal),
                                principal)
             /\ WithinTolerance(balance, Zero, principal)
             /\ WithinTolerance(Last(balances), Zero, principal)

(* C6 as the spec states it: the parameters of the file give               *)
(* total_payments = 276, a monthly payment within 0.01 of 934.37 and a     *)
(* total interest within 50 of 60098.                                      *)
C6_SpecFigures ==
    /\ pc # "derive" => total_payments = 276
    /\ PaymentComputed
       => Within(WMul(monthly_payment, WInt(100)), WInt(93437), 1, 1)
    /\ Completed => Within(total_interest, FInt(60098), 50, 1)

(* C6, amended: the parameters of the file give total_payments = 276, a    *)
(* monthly payment within 0.01 of 972.35 and a total interest within 50    *)
(* of 71682.                                                               *)
C6_SourceFigures ==
    /\ pc # "derive" => total_payments = 276
    /\ PaymentComputed
       => Within(WMul(monthly_payment, WInt(100)), WInt(97235), 1, 1)
    /\ Completed => Within(total_interest, FInt(71682), 50, 1)

\* the run with the file's parameters has completed over its 276 months
C6_Witness ==
    /\ Completed
    /\ principal = 196687 /\ term_years = 23 /\ payments_made = 0
    /\ Len(interest_payments) = 276

\* s[i] + ... + s[j] as a real number, no rounding
RECURSIVE ExactSum(_, _, _)
ExactSum(s, i, j) ==
    IF i > j THEN Zero
    ELSE IF i = j THEN s[i]
    ELSE WAdd(ExactSum(s, i, (i + j) \div 2),
              ExactSum(s, (i + j) \div 2 + 1, j))

\* |x - y| <= 1e-6 * |y|
RelativelyClose(x, y) ==
    WCmp(WMul(WAbs(WSub(x, y)), WInt(10^6)), WAbs(y)) <= 0

(* C7 as the spec states it: after the schedule is complete,               *)
(* total_interest is the sum of the interest portions, which is the last   *)
(* element of cumulative_interest, and total_cost is principal +           *)
(* total_interest exactly, principal being the original loan amount (the   *)
(* first recorded balance).                                                *)
C7_TotalsIdentical ==
    Completed
    => /\ total_interest = Last(cumulative_interest)
       /\ total_cost = FAdd(FInt(principal), total_interest)
       /\ balances[1] = FInt(principal)

(* C7, amended: after the schedule is complete, total_interest is the sum  *)
(* of the recorded interest portions and the last element of               *)
(* cumulative_interest up to the rounding of float addition (within 1e-6   *)
(* relative; sum() need not add in the order the loop did), total_cost is  *)
(* the float principal + total_interest exactly, and no step changes       *)
(* principal, which is the first recorded balance.                         *)
C7_Totals ==
    /\ [](Completed
          => /\ RelativelyClose(total_interest,
                                ExactSum(interest_payments, 1,
                                         Len(interest_payments)))
             /\ RelativelyClose(total_interest, Last(cumulative_interest))
             /\ total_cost = FAdd(FInt(principal), total_interest)
             /\ balances[1] = FInt(principal))
    /\ [][principal' = principal]_vars

\* a completed run over a full year with interest, whose two totals differ
\* in the last place
C7_Witness ==
    /\ Completed
    /\ Len(interest_payments) >= 12
    /\ Pos(total_interest)
    /\ total_interest # Last(cumulative_interest)

(* C8: in every state of the loop every element of balances is >= 0, each  *)
(* recorded balance being max(0, balance) of the running balance, which    *)
(* itself is kept unclamped.  The first element is the principal as given  *)
(* (line 28), which nothing has validated (C3).                            *)
C8_BalancesNonNegative ==
    Scheduled
    => /\ \A i \in 1..Len(balances) : NonNeg(balances[i])
       /\ month > 0 => Last(balances) = Max0(balance)

(* C9: at every iteration boundary, after k = month months:                *)
(* cumulative_principal, cumulative_interest and balances have k + 1       *)
(* elements, principal_payments and interest_payments have k; index 0 of   *)
(* the cumulative lists is 0 and of balances the principal; and each       *)
(* cumulative element is the running (float) sum of the portions so far.   *)
(* TLA+ sequences count from 1: Python's index i is i + 1 here.            *)
C9_RunningSums ==
    Scheduled
    => /\ Len(cumulative_principal) = month + 1
       /\ Len(cumulative_interest) = month + 1
       /\ Len(balances) = month + 1
       /\ Len(principal_payments) = month
       /\ Len(interest_payments) = month
       /\ cumulative_principal[1] = Zero
       /\ cumulative_interest[1] = Zero
       /\ balances[1] = FInt(principal)
       /\ \A i \in 1..month :
            /\ cumulative_principal[i + 1]
                 = FAdd(cumulative_principal[i], principal_payments[i])
            /\ cumulative_interest[i + 1]
                 = FAdd(cumulative_interest[i], interest_payments[i])

\* a year into a schedule with interest
C9_Witness ==
    /\ pc = "loop"
    /\ month = 12
    /\ Pos(Last(cumulative_interest))
    /\ Len(cumulative_principal) = 13

\* 2^-53, the relative error of one float operation
HalfUlp == [s |-> 0, m |-> <<1>>, e |-> -MantBits]

\* month i of the schedule: interest >= 0, principal portion > 0, the
\* recorded balance lower than the month before, the principal portion
\* higher and the interest lower than the month before
MonthInOrder(i) ==
    /\ NonNeg(interest_payments[i])
    /\ Pos(principal_payments[i])
    /\ Less(balances[i + 1], balances[i])
    /\ i > 1 => /\ Less(principal_payments[i - 1], principal_payments[i])
                /\ Less(interest_payments[i], interest_payments[i - 1])

OrdinaryLoan ==
    /\ WCmp(annual_rate, DecLit(1, 1000)) >= 0
    /\ WCmp(annual_rate, DecLit(30, 100)) <= 0
    /\ term_years <= 40

====
